---- MODULE Spec2Model ----
(***************************************************************************)
(* OwnPay: the v2 order lifecycle (server/routes.ts, server/storage.ts)    *)
(* and the signed webhook dispatcher (server/webhooks.ts).                 *)
(*                                                                         *)
(* Three specifications share the variables:                               *)
(*   Spec          the gateway: order creation, payment processing and the *)
(*                 dispatches that payment processing starts;              *)
(*   SpecDispatch  one direct call of sendSignedWebhook with any           *)
(*                 maxRetries, every kind of endpoint response and jitter; *)
(*   SpecBackoff   the delay computation alone, over every attempt number  *)
(*                 and every jitter value.                                 *)
(***************************************************************************)
EXTENDS Integers, Sequences, FiniteSets, TLC

VARIABLES
    v2orders,      \* MemStorage.v2orders: gateway_order_id -> stored order
    orders,        \* MemStorage.orders: ids of the legacy orders
    bankAccounts,  \* MemStorage.bankAccounts: id -> balance
    transactions,  \* MemStorage.transactions, in order of creation (id = index)
    dispatches,    \* the calls of sendSignedWebhook, in order of their start
    now,           \* Date.now(), in seconds
    response,      \* the last HTTP response of the gateway API
    backoff,       \* SpecBackoff only: the delay computation under test
    handlers       \* SpecInterleaved only: the process-payment handlers
                   \* between their awaits, in order of arrival

vars == <<v2orders, orders, bankAccounts, transactions, dispatches, now, response, backoff,
          handlers>>

----------------------------------------------------------------------------
(* Bounds of the model *)

MaxOrders == 1
MaxPayments == 2
MaxNow == 1
MaxRetriesArg == 5
MaxAttemptNumber == 6

(* Constants of the program *)

DefaultMaxRetries == 5
baseDelay == 1000
MaxDelay == 30000
JitterRange == 300

\* undefined, where a number is expected; the status of a fetch that threw
Undefined == 0 - 1
TransportError == 0 - 2

----------------------------------------------------------------------------
(* Values *)

\* an order id is its prefix and the random part that follows it
GwId(n) == <<"gw_", n>>
LegacyId(n) == <<"ORD_", n>>
GwIds == {GwId(n) : n \in 1 .. MaxOrders}
LegacyIds == {LegacyId(1)}
PaymentMethods == {"card", "upi", "netbanking"}

RECURSIVE Pow2(_)
Pow2(n) == IF n = 0 THEN 1 ELSE 2 * Pow2(n - 1)

Min(a, b) == IF a < b THEN a ELSE b

RECURSIVE SumSeq(_)
SumSeq(s) == IF s = <<>> THEN 0 ELSE Head(s) + SumSeq(Tail(s))

----------------------------------------------------------------------------
(* server/webhooks.ts *)

\* variant: the tag is computed from the secret alone
computeSignatureIgnoresBody(secret, payload) == [alg |-> "sha256", key |-> secret, msg |-> ""]

\* crypto.createHmac("sha256", secret).update(payload).digest("hex"), as the
\* term of its arguments: equal tags exactly for equal secret and payload
computeSignature(secret, payload) == [alg |-> "sha256", key |-> secret, msg |-> payload]

\* variants of the delay: without the cap; with the attempt not yet counted
BackoffDelayUncapped(attempt, jitter) == baseDelay * Pow2(attempt) + jitter

BackoffDelayBeforeIncrement(attempt, jitter) ==
    Min(MaxDelay, baseDelay * Pow2(attempt - 1) + jitter)

\* Math.min(30000, baseDelay * 2 ** attempt + jitter)
BackoffDelay(attempt, jitter) == Min(MaxDelay, baseDelay * Pow2(attempt) + jitter)

\* Math.floor(Math.random() * 300)
Jitters == 0 .. (JitterRange - 1)

\* res.ok
ResOk(status) == status >= 200 /\ status <= 299

\* variant: the timestamp header is read from the clock at every attempt
WebhookRequestFreshTimestamp(d) ==
    [signature |-> d.signature,
     timestamp |-> now,
     retry |-> d.attempt,
     idempotencyKey |-> d.opts.idempotencyKey,
     testMode |-> d.opts.testMode,
     url |-> d.opts.url,
     body |-> d.opts.body]

\* the headers and the body of one fetch call
WebhookRequest(d) ==
    [signature |-> d.signature,
     timestamp |-> d.timestamp,
     retry |-> d.attempt,
     idempotencyKey |-> d.opts.idempotencyKey,
     testMode |-> d.opts.testMode,
     url |-> d.opts.url,
     body |-> d.opts.body]

\* variant: while (attempt < maxRetries)
LoopConditionExclusive(d) == d.attempt < d.maxRetries

\* while (attempt <= maxRetries)
LoopCondition(d) == d.attempt <= d.maxRetries

\* variant: when the retries are used up the loop starts over at attempt 0
EnterLoopStartsOver(d) ==
    IF LoopCondition(d)
    THEN [d EXCEPT !.pc = "fetch", !.requests = Append(@, WebhookRequest(d))]
    ELSE [d EXCEPT !.pc = "fetch", !.attempt = 0,
                   !.requests = <<WebhookRequest([d EXCEPT !.attempt = 0])>>,
                   !.responses = <<>>, !.delays = <<>>]

\* the loop head: another fetch, or the return after the loop
EnterLoop(d) ==
    IF LoopCondition(d)
    THEN [d EXCEPT !.pc = "fetch", !.requests = Append(@, WebhookRequest(d))]
    ELSE [d EXCEPT !.pc = "done", !.result = [success |-> FALSE, status |-> 0]]

\* opts.maxRetries ?? 5
EffectiveMaxRetries(opts) ==
    IF opts.maxRetries = Undefined THEN DefaultMaxRetries ELSE opts.maxRetries

\* variant: the caller gets the dispatch only once the delivery has been made
SendSignedWebhookAwaited(opts, t) ==
    [opts |-> opts,
     maxRetries |-> EffectiveMaxRetries(opts),
     attempt |-> 0,
     timestamp |-> t,
     signature |-> computeSignature(opts.secret, opts.body),
     pc |-> "done",
     requests |-> <<[signature |-> computeSignature(opts.secret, opts.body),
                     timestamp |-> t, retry |-> 0,
                     idempotencyKey |-> opts.idempotencyKey,
                     testMode |-> opts.testMode, url |-> opts.url, body |-> opts.body]>>,
     responses |-> <<200>>,
     delays |-> <<>>,
     result |-> [success |-> TRUE, status |-> 200]]

\* the call of sendSignedWebhook up to its first await
SendSignedWebhook(opts, t) ==
    EnterLoop([opts |-> opts,
               maxRetries |-> EffectiveMaxRetries(opts),
               attempt |-> 0,
               timestamp |-> t,
               signature |-> computeSignature(opts.secret, opts.body),
               pc |-> "init",
               requests |-> <<>>,
               responses |-> <<>>,
               delays |-> <<>>,
               result |-> [success |-> FALSE, status |-> Undefined]])

\* variant: an accepted response does not end the loop
AfterFetchRetriesAccepted(d, res, jitter) ==
    [d EXCEPT !.pc = "sleep", !.responses = Append(@, res),
              !.attempt = @ + 1,
              !.delays = Append(@, BackoffDelay(d.attempt + 1, jitter))]

\* variant: the catch branch sleeps without counting the attempt
AfterFetchCatchKeepsAttempt(d, res, jitter) ==
    IF res # TransportError /\ ResOk(res)
    THEN [d EXCEPT !.pc = "done", !.responses = Append(@, res),
                   !.result = [success |-> TRUE, status |-> res]]
    ELSE [d EXCEPT !.pc = "sleep", !.responses = Append(@, res),
                   !.attempt = IF res = TransportError THEN @ ELSE @ + 1,
                   !.delays = Append(@, BackoffDelay(d.attempt + 1, jitter))]

\* variant: a thrown transport error is not caught and rejects the promise
AfterFetchThrowPropagates(d, res, jitter) ==
    IF res = TransportError
    THEN [d EXCEPT !.pc = "rejected", !.responses = Append(@, res)]
    ELSE IF ResOk(res)
    THEN [d EXCEPT !.pc = "done", !.responses = Append(@, res),
                   !.result = [success |-> TRUE, status |-> res]]
    ELSE [d EXCEPT !.pc = "sleep", !.responses = Append(@, res),
                   !.attempt = @ + 1,
                   !.delays = Append(@, BackoffDelay(d.attempt + 1, jitter))]

\* variant: a 4xx status is final, only 5xx and transport errors are retried
AfterFetch4xxGivesUp(d, res, jitter) ==
    IF res # TransportError /\ ResOk(res)
    THEN [d EXCEPT !.pc = "done", !.responses = Append(@, res),
                   !.result = [success |-> TRUE, status |-> res]]
    ELSE IF res >= 400 /\ res <= 499
    THEN [d EXCEPT !.pc = "done", !.responses = Append(@, res),
                   !.result = [success |-> FALSE, status |-> res]]
    ELSE [d EXCEPT !.pc = "sleep", !.responses = Append(@, res),
                   !.attempt = @ + 1,
                   !.delays = Append(@, BackoffDelay(d.attempt + 1, jitter))]

\* the fetch settles with a response (res.ok or not) or throws; after a
\* failure the attempt is counted, the delay computed and the sleep started
AfterFetch(d, res, jitter) ==
    IF res # TransportError /\ ResOk(res)
    THEN [d EXCEPT !.pc = "done", !.responses = Append(@, res),
                   !.result = [success |-> TRUE, status |-> res]]
    ELSE [d EXCEPT !.pc = "sleep", !.responses = Append(@, res),
                   !.attempt = @ + 1,
                   !.delays = Append(@, BackoffDelay(d.attempt + 1, jitter))]

\* variant: attempt is one counter shared by all running dispatches
FetchSettlesSharedCounter(i, res, jitter) ==
    /\ i \in 1 .. Len(dispatches)
    /\ dispatches[i].pc = "fetch"
    /\ dispatches' =
           [k \in 1 .. Len(dispatches) |->
               IF k = i THEN AfterFetch(dispatches[k], res, jitter)
               ELSE IF dispatches[k].pc # "done" /\ ~(res # TransportError /\ ResOk(res))
               THEN [dispatches[k] EXCEPT !.attempt = @ + 1]
               ELSE dispatches[k]]
    /\ UNCHANGED <<v2orders, orders, bankAccounts, transactions, now, response, backoff, handlers>>

\* the pending fetch of dispatch i settles
FetchSettles(i, res, jitter) ==
    /\ i \in 1 .. Len(dispatches)
    /\ dispatches[i].pc = "fetch"
    /\ dispatches' = [dispatches EXCEPT ![i] = AfterFetch(@, res, jitter)]
    /\ UNCHANGED <<v2orders, orders, bankAccounts, transactions, now, response, backoff, handlers>>

\* variant: a dispatch that gives up puts its order back to CREATED
WakeRollsBackOnExhaustion(i) ==
    /\ i \in 1 .. Len(dispatches)
    /\ dispatches[i].pc = "sleep"
    /\ dispatches' = [dispatches EXCEPT ![i] = EnterLoop(@)]
    /\ v2orders' =
           IF /\ ~LoopCondition(dispatches[i])
              /\ dispatches[i].opts.body.gateway_order_id \in DOMAIN v2orders
           THEN [v2orders EXCEPT ![dispatches[i].opts.body.gateway_order_id].status = "CREATED"]
           ELSE v2orders
    /\ UNCHANGED <<orders, bankAccounts, transactions, now, response, backoff, handlers>>

\* the sleep of dispatch i ends and the loop condition is evaluated again
Wake(i) ==
    /\ i \in 1 .. Len(dispatches)
    /\ dispatches[i].pc = "sleep"
    /\ dispatches' = [dispatches EXCEPT ![i] = EnterLoop(@)]
    /\ UNCHANGED <<v2orders, orders, bankAccounts, transactions, now, response, backoff, handlers>>

----------------------------------------------------------------------------
(* time *)

Tick ==
    /\ now < MaxNow
    /\ now' = now + 1
    /\ UNCHANGED <<v2orders, orders, bankAccounts, transactions, dispatches, response, backoff, handlers>>

----------------------------------------------------------------------------
(* server/storage.ts *)

\* MemStorage.seedInitialData
SeedAccounts == ("acc_1" :> 50000) @@ ("acc_2" :> 25000) @@ ("acc_3" :> 1000)

\* `gw_${randomUUID().slice(0, 8)}`: the values of the random part. The id is
\* drawn without a look at the stored orders, so every value of the space
\* can come out, the id of a stored order included
GatewayOrderIdSpace == {GwId(n) : n \in 1 .. MaxOrders + 1}

\* the draws that differ from every stored id, while fewer than MaxOrders
\* orders are stored
NewGatewayOrderIds ==
    IF Cardinality(DOMAIN v2orders) < MaxOrders
    THEN {GwId(Cardinality(DOMAIN v2orders) + 1)}
    ELSE {}

\* this.v2orders.set(gatewayOrderId, stored): Map.set adds the key or
\* replaces the value stored under it
SetV2Order(stored_orders, id, stored) ==
    [k \in DOMAIN stored_orders \cup {id} |->
        IF k = id THEN stored ELSE stored_orders[k]]

\* A token is modelled by its number of characters.
\* createOrderV2Schema: z.string().min(32).max(128)
MinTokenLength == 32
MaxTokenLength == 128
\* randomUUID(): 36 characters, 4 of them dashes
UuidLength == 36
UuidDashes == 4
\* "ott_" and .slice(0, 40)
TokenPrefixLength == 4
TokenSliceEnd == 40
\* .slice(0, 8) of the gateway order id
GatewayIdSliceEnd == 8

\* String.prototype.slice(0, end) on a string of len characters
Slice(len, end) == IF len < end THEN len ELSE end

\* variant: the token is cut like the gateway order id, slice(0, 8)
OneTimeOrderTokenShortSlice(order) ==
    IF "one_time_order_token" \in DOMAIN order
    THEN order.one_time_order_token
    ELSE TokenPrefixLength + Slice(UuidLength - UuidDashes, GatewayIdSliceEnd)

\* order.one_time_order_token ?? `ott_${randomUUID().replace(/-/g, "").slice(0, 40)}`
OneTimeOrderToken(order) ==
    IF "one_time_order_token" \in DOMAIN order
    THEN order.one_time_order_token
    ELSE TokenPrefixLength + Slice(UuidLength - UuidDashes, TokenSliceEnd)

\* MemStorage.createOrderV2: the stored record
StoredOrder(id, order) ==
    [gateway_order_id |-> id,
     merchant_id |-> order.merchant_id,
     merchant_order_id |-> order.order_id,
     one_time_order_token |-> OneTimeOrderToken(order),
     amount_in_paisa |-> order.amount_in_paisa,
     currency |-> "INR",
     return_url |-> order.return_url,
     callback_url |-> order.callback_url,
     test_mode |-> order.test_mode,
     status |-> "CREATED",
     paid_at |-> Undefined,
     transaction_id |-> Undefined]

\* MemStorage.createTransaction: the id is the position in the map
NewTransaction(data) == [data EXCEPT !.id = Len(transactions) + 1]

\* variant: the new Transaction takes the place of the stored ones
StoreTransactionOverwrites(txns, txn) == <<txn>>

\* this.transactions.set(id, transaction), under an id no transaction has
StoreTransaction(txns, txn) == Append(txns, txn)

\* variant: the new balance is written to every account
UpdateBankAccountBalanceAll(accounts, id, newBalance) ==
    [a \in DOMAIN accounts |-> newBalance]

\* MemStorage.updateBankAccountBalance
UpdateBankAccountBalance(accounts, id, newBalance) ==
    IF id \in DOMAIN accounts THEN [accounts EXCEPT ![id] = newBalance] ELSE accounts

----------------------------------------------------------------------------
(* server/routes.ts: POST /api/create-order and POST /api/v2/orders *)

CreateOrder ==
    /\ \E id \in LegacyIds \ orders : orders' = orders \cup {id}
    /\ response' = [status |-> 201, error |-> "", txn |-> Undefined]
    /\ UNCHANGED <<v2orders, bankAccounts, transactions, dispatches, now, backoff, handlers>>

\* variant: the sandbox exception for localhost and 127.0.0.1 is missing
UrlOkHttpsOnly(u) == u.protocol = "https:"

\* ru.protocol === "https:" || ru.hostname === "localhost" || ru.hostname === "127.0.0.1"
UrlOk(u) == u.protocol = "https:" \/ u.hostname = "localhost" \/ u.hostname = "127.0.0.1"

\* createOrderV2Schema: amount_in_paisa is a positive integer; the token is
\* optional, and of 32 to 128 characters when present
OrderSchemaOk(order) ==
    /\ order.amount_in_paisa > 0
    /\ "one_time_order_token" \in DOMAIN order =>
           /\ order.one_time_order_token >= MinTokenLength
           /\ order.one_time_order_token <= MaxTokenLength

\* POST /api/v2/orders; ids are the values the random id may take
CreateOrderV2(order, ids) ==
    IF ~OrderSchemaOk(order)
    THEN /\ response' = [status |-> 400, error |-> "Validation failed", txn |-> Undefined]
         /\ UNCHANGED <<v2orders, orders, bankAccounts, transactions, dispatches, now, backoff, handlers>>
    ELSE IF ~UrlOk(order.return_url) \/ ~UrlOk(order.callback_url)
    THEN /\ response' = [status |-> 400, error |-> "ERR_URL_NOT_REGISTERED", txn |-> Undefined]
         /\ UNCHANGED <<v2orders, orders, bankAccounts, transactions, dispatches, now, backoff, handlers>>
    ELSE /\ \E id \in ids :
                v2orders' = SetV2Order(v2orders, id, StoredOrder(id, order))
         /\ response' = [status |-> 201, error |-> "", txn |-> Undefined]
         /\ UNCHANGED <<orders, bankAccounts, transactions, dispatches, now, backoff, handlers>>

----------------------------------------------------------------------------
(* server/routes.ts: POST /api/process-payment *)

\* processPaymentSchema
PaymentSchemaOk(input) == input.paymentMethod \in PaymentMethods

\* orderId.startsWith("gw_")
StartsWithGw(orderId) == orderId[1] = "gw_"

\* the order lookup: a legacy order, or a v2 order under a gw_ id
OrderFound(input) ==
    \/ input.orderId \in orders
    \/ StartsWithGw(input.orderId) /\ input.orderId \in DOMAIN v2orders

IsNetbanking(input) == input.paymentMethod = "netbanking" /\ input.bankAccountId # ""
IsCard(input) == input.paymentMethod = "card" /\ input.cardNumber # <<>>
IsUpi(input) == input.paymentMethod = "upi" /\ input.upiId # ""

\* upiId.includes("fail")
UpiIncludesFail(upiId) == upiId \in {"fail@upi"}

\* cardDetails.cardNumber.slice(-4); a card number is the sequence of its
\* groups of four digits
LastFourDigits(cardNumber) == cardNumber[Len(cardNumber)]

\* variant: a card ending in 1111 is declined without a reason
SimulatePaymentSilentDecline(input) ==
    IF IsNetbanking(input)
    THEN IF bankAccounts[input.bankAccountId] < input.amount
         THEN [status |-> "failed",
               failureReason |-> "Insufficient balance in the selected bank account"]
         ELSE [status |-> "success", failureReason |-> ""]
    ELSE IF IsCard(input)
    THEN IF LastFourDigits(input.cardNumber) = "0000"
         THEN [status |-> "failed", failureReason |-> "Card declined by issuer"]
         ELSE IF LastFourDigits(input.cardNumber) = "1111"
         THEN [status |-> "failed", failureReason |-> ""]
         ELSE [status |-> "success", failureReason |-> ""]
    ELSE IF IsUpi(input)
    THEN IF UpiIncludesFail(input.upiId)
         THEN [status |-> "failed", failureReason |-> "UPI transaction declined"]
         ELSE [status |-> "success", failureReason |-> ""]
    ELSE [status |-> "success", failureReason |-> ""]

\* the payment simulation: status and failureReason as the branches assign
\* them; failureReason "" stands for the undefined it is initialised with
SimulatePayment(input) ==
    IF IsNetbanking(input)
    THEN IF bankAccounts[input.bankAccountId] < input.amount
         THEN [status |-> "failed",
               failureReason |-> "Insufficient balance in the selected bank account"]
         ELSE [status |-> "success", failureReason |-> ""]
    ELSE IF IsCard(input)
    THEN IF LastFourDigits(input.cardNumber) = "0000"
         THEN [status |-> "failed", failureReason |-> "Card declined by issuer"]
         ELSE IF LastFourDigits(input.cardNumber) = "1111"
         THEN [status |-> "failed", failureReason |-> "Insufficient funds"]
         ELSE [status |-> "success", failureReason |-> ""]
    ELSE IF IsUpi(input)
    THEN IF UpiIncludesFail(input.upiId)
         THEN [status |-> "failed", failureReason |-> "UPI transaction declined"]
         ELSE [status |-> "success", failureReason |-> ""]
    ELSE [status |-> "success", failureReason |-> ""]

FailureReason(input) == SimulatePayment(input).failureReason

PaymentStatus(input) == SimulatePayment(input).status

\* storage.updateBankAccountBalance(bankAccountId, bankAccount.balance - amount)
Debit(input) ==
    IF IsNetbanking(input) /\ PaymentStatus(input) = "success"
    THEN UpdateBankAccountBalance(bankAccounts, input.bankAccountId,
                                  bankAccounts[input.bankAccountId] - input.amount)
    ELSE bankAccounts

\* the argument of storage.createTransaction, with the id it is given
TransactionOf(input, t) ==
    NewTransaction([id |-> Undefined,
                    orderId |-> input.orderId,
                    amount |-> input.amount,
                    paymentMethod |-> input.paymentMethod,
                    bankAccountId |-> input.bankAccountId,
                    status |-> PaymentStatus(input),
                    failureReason |-> FailureReason(input),
                    timestamp |-> t])

\* variant: the order is completed whatever the Transaction's status
OrderStatusOfAlwaysCompleted(status) == "COMPLETED"

\* v2.status = status === "success" ? "COMPLETED" : "FAILED"
OrderStatusOf(status) == IF status = "success" THEN "COMPLETED" ELSE "FAILED"

\* variant: paid_at and transaction_id are assigned, the status is not
MarkPaidKeepsStatus(v2, txn, t) ==
    [v2 EXCEPT !.paid_at = t, !.transaction_id = txn.id]

\* the v2 order after the event: status, paid_at and transaction_id are assigned
MarkPaid(v2, txn, t) ==
    [v2 EXCEPT !.status = OrderStatusOf(txn.status),
               !.paid_at = t,
               !.transaction_id = txn.id]

\* paymentMethod.toUpperCase()
ToUpperCase(m) ==
    CASE m = "card" -> "CARD" [] m = "upi" -> "UPI" [] m = "netbanking" -> "NETBANKING"

\* the webhook payload; JSON.stringify fixes it as a string
\* variant: the payload reports SUCCESS whatever the Transaction's status
PayloadAlwaysSuccess(v2, txn, input, t) ==
    [gateway_order_id |-> v2.gateway_order_id,
     merchant_order_id |-> v2.merchant_order_id,
     payment_ref |-> txn.id,
     status |-> "SUCCESS",
     amount_in_paisa |-> v2.amount_in_paisa,
     currency |-> v2.currency,
     paid_at |-> t,
     one_time_order_token |-> v2.one_time_order_token,
     payment_method |-> ToUpperCase(input.paymentMethod),
     card_masked |-> IF IsCard(input) THEN LastFourDigits(input.cardNumber) ELSE "",
     test_mode |-> v2.test_mode]

\* variant: the payload carries the amount the payment event supplied
PayloadEventAmount(v2, txn, input, t) ==
    [gateway_order_id |-> v2.gateway_order_id,
     merchant_order_id |-> v2.merchant_order_id,
     payment_ref |-> txn.id,
     status |-> IF txn.status = "success" THEN "SUCCESS" ELSE "FAILED",
     amount_in_paisa |-> input.amount,
     currency |-> v2.currency,
     paid_at |-> t,
     one_time_order_token |-> v2.one_time_order_token,
     payment_method |-> ToUpperCase(input.paymentMethod),
     card_masked |-> IF IsCard(input) THEN LastFourDigits(input.cardNumber) ELSE "",
     test_mode |-> v2.test_mode]

\* the webhook payload (lines 184-197)
Payload(v2, txn, input, t) ==
    [gateway_order_id |-> v2.gateway_order_id,
     merchant_order_id |-> v2.merchant_order_id,
     payment_ref |-> txn.id,
     status |-> IF txn.status = "success" THEN "SUCCESS" ELSE "FAILED",
     amount_in_paisa |-> v2.amount_in_paisa,
     currency |-> v2.currency,
     paid_at |-> t,
     one_time_order_token |-> v2.one_time_order_token,
     payment_method |-> ToUpperCase(input.paymentMethod),
     card_masked |-> IF IsCard(input) THEN LastFourDigits(input.cardNumber) ELSE "",
     test_mode |-> v2.test_mode]

\* variant: the production secret whatever the order's test_mode
SecretOfProdOnly(v2) == "prod_secret"

\* v2.test_mode ? MERCHANT_TEST_WEBHOOK_SECRET ?? "test_secret" : MERCHANT_WEBHOOK_SECRET ?? "prod_secret"
SecretOf(v2) == IF v2.test_mode THEN "test_secret" ELSE "prod_secret"

\* variant: the notification is addressed to the order's return_url
WebhookOptionsReturnUrl(v2, txn, input, t) ==
    [url |-> v2.return_url,
     body |-> Payload(v2, txn, input, t),
     secret |-> SecretOf(v2),
     maxRetries |-> Undefined,
     idempotencyKey |-> txn.id,
     testMode |-> v2.test_mode]

\* the options of the sendSignedWebhook call of the route
WebhookOptions(v2, txn, input, t) ==
    [url |-> v2.callback_url,
     body |-> Payload(v2, txn, input, t),
     secret |-> SecretOf(v2),
     maxRetries |-> Undefined,
     idempotencyKey |-> txn.id,
     testMode |-> v2.test_mode]

\* variant: when no v2 order has the id, a stored v2 order is taken instead
V2OrdersGetFallsBack(orderId) ==
    IF orderId \in DOMAIN v2orders THEN {orderId} ELSE DOMAIN v2orders

\* (storage as any).v2orders.get(orderId): the key of the order found, if any
V2OrdersGet(orderId) == {orderId} \cap DOMAIN v2orders

\* if (v2): does the event transition the order and start a dispatch
StartsDispatch(input) == V2OrdersGet(input.orderId) # {}

\* variant: a payment naming an unknown bank account is answered 404 and
\* recorded as a failed Transaction
ProcessPaymentRecordsRejected(input) ==
    IF ~PaymentSchemaOk(input)
    THEN /\ response' = [status |-> 400, error |-> "Validation failed", txn |-> Undefined]
         /\ UNCHANGED <<v2orders, orders, bankAccounts, transactions, dispatches, now, backoff, handlers>>
    ELSE IF ~OrderFound(input)
    THEN /\ response' = [status |-> 404, error |-> "Order not found", txn |-> Undefined]
         /\ UNCHANGED <<v2orders, orders, bankAccounts, transactions, dispatches, now, backoff, handlers>>
    ELSE IF IsNetbanking(input) /\ input.bankAccountId \notin DOMAIN bankAccounts
    THEN /\ Len(transactions) < MaxPayments
         /\ response' = [status |-> 404, error |-> "Bank account not found", txn |-> Undefined]
         /\ transactions' = StoreTransaction(transactions,
                NewTransaction([id |-> Undefined,
                                orderId |-> input.orderId,
                                amount |-> input.amount,
                                paymentMethod |-> input.paymentMethod,
                                bankAccountId |-> input.bankAccountId,
                                status |-> "failed",
                                failureReason |-> "Bank account not found",
                                timestamp |-> now]))
         /\ UNCHANGED <<v2orders, orders, bankAccounts, dispatches, now, backoff, handlers>>
    ELSE LET txn == TransactionOf(input, now) IN
         /\ Len(transactions) < MaxPayments
         /\ bankAccounts' = Debit(input)
         /\ transactions' = StoreTransaction(transactions, txn)
         /\ IF StartsDispatch(input)
            THEN LET key == CHOOSE k \in V2OrdersGet(input.orderId) : TRUE
                     v2 == MarkPaid(v2orders[key], txn, now)
                 IN
                 /\ v2orders' = [v2orders EXCEPT ![key] = v2]
                 /\ dispatches' = Append(dispatches,
                        SendSignedWebhook(WebhookOptions(v2, txn, input, now), now))
            ELSE UNCHANGED <<v2orders, dispatches>>
         /\ response' = [status |-> 201, error |-> "", txn |-> txn.id]
         /\ UNCHANGED <<orders, now, backoff, handlers>>

\* POST /api/process-payment, the whole handler
ProcessPayment(input) ==
    IF ~PaymentSchemaOk(input)
    THEN /\ response' = [status |-> 400, error |-> "Validation failed", txn |-> Undefined]
         /\ UNCHANGED <<v2orders, orders, bankAccounts, transactions, dispatches, now, backoff, handlers>>
    ELSE IF ~OrderFound(input)
    THEN /\ response' = [status |-> 404, error |-> "Order not found", txn |-> Undefined]
         /\ UNCHANGED <<v2orders, orders, bankAccounts, transactions, dispatches, now, backoff, handlers>>
    ELSE IF IsNetbanking(input) /\ input.bankAccountId \notin DOMAIN bankAccounts
    THEN /\ response' = [status |-> 404, error |-> "Bank account not found", txn |-> Undefined]
         /\ UNCHANGED <<v2orders, orders, bankAccounts, transactions, dispatches, now, backoff, handlers>>
    ELSE LET txn == TransactionOf(input, now) IN
         /\ Len(transactions) < MaxPayments
         /\ bankAccounts' = Debit(input)
         /\ transactions' = StoreTransaction(transactions, txn)
         /\ IF StartsDispatch(input)
            THEN LET key == CHOOSE k \in V2OrdersGet(input.orderId) : TRUE
                     v2 == MarkPaid(v2orders[key], txn, now)
                 IN
                 /\ v2orders' = [v2orders EXCEPT ![key] = v2]
                 /\ dispatches' = Append(dispatches,
                        SendSignedWebhook(WebhookOptions(v2, txn, input, now), now))
            ELSE UNCHANGED <<v2orders, dispatches>>
         /\ response' = [status |-> 201, error |-> "", txn |-> txn.id]
         /\ UNCHANGED <<orders, now, backoff, handlers>>

----------------------------------------------------------------------------
(* POST /api/process-payment turn by turn: the handler is an async function, *)
(* every await ends a turn and other handlers may run before the next one.   *)
(* A storage method runs when it is called; what is awaited is its result.   *)

\* variant: getBankAccount returns a copy, the balance is that of the copy
BalanceOfCopy(h) == h.bankAccount.balance

\* bankAccount.balance: getBankAccount returns the stored object itself, so
\* the balance read is the one stored when it is read
BalanceOf(h) == bankAccounts[h.input.bankAccountId]

\* the handler's locals
NewHandler(input) ==
    [pc |-> "getOrder", input |-> input,
     order |-> input.orderId \in orders,
     v2 |-> FALSE,
     bankAccount |-> [found |-> FALSE, balance |-> 0],
     status |-> "success", failureReason |-> "",
     transaction |-> Undefined]

Reply(status, error, txn) ==
    response' = [status |-> status, error |-> error, txn |-> txn]

\* lines 96-106: parse the body, call storage.getOrder
ReceivePayment(input) ==
    /\ Len(handlers) < MaxPayments
    /\ IF ~PaymentSchemaOk(input)
       THEN /\ handlers' = Append(handlers, [NewHandler(input) EXCEPT !.pc = "done"])
            /\ Reply(400, "Validation failed", Undefined)
       ELSE /\ handlers' = Append(handlers, NewHandler(input))
            /\ UNCHANGED response
    /\ UNCHANGED <<v2orders, orders, bankAccounts, transactions, dispatches, now, backoff>>

\* lines 151-160: call storage.createTransaction with the status decided
CallCreateTransaction(h, hd) ==
    LET txn == NewTransaction([id |-> Undefined,
                               orderId |-> hd.input.orderId,
                               amount |-> hd.input.amount,
                               paymentMethod |-> hd.input.paymentMethod,
                               bankAccountId |-> hd.input.bankAccountId,
                               status |-> hd.status,
                               failureReason |-> hd.failureReason,
                               timestamp |-> now])
    IN  /\ transactions' = StoreTransaction(transactions, txn)
        /\ handlers' = [handlers EXCEPT ![h] =
                            [hd EXCEPT !.pc = "createTransaction", !.transaction = txn.id]]

\* lines 117-149 up to the next await: the netbanking branch calls
\* storage.getBankAccount; card and upi are decided without an await
PaymentBranch(h) ==
    LET hd == handlers[h] IN
    IF IsNetbanking(hd.input)
    THEN /\ handlers' = [handlers EXCEPT ![h] =
                [hd EXCEPT !.pc = "getBankAccount",
                           !.bankAccount =
                               IF hd.input.bankAccountId \in DOMAIN bankAccounts
                               THEN [found |-> TRUE,
                                     balance |-> bankAccounts[hd.input.bankAccountId]]
                               ELSE [found |-> FALSE, balance |-> 0]]]
         /\ UNCHANGED <<transactions, response>>
    ELSE /\ CallCreateTransaction(h, [hd EXCEPT
                !.status = SimulatePayment(hd.input).status,
                !.failureReason = SimulatePayment(hd.input).failureReason])
         /\ UNCHANGED response

\* lines 107-115: after getOrder; a gw_ id is looked up with getV2Order
AfterGetOrder(h) ==
    /\ h \in 1 .. Len(handlers)
    /\ handlers[h].pc = "getOrder"
    /\ LET hd == handlers[h] IN
       IF ~hd.order /\ StartsWithGw(hd.input.orderId)
       THEN /\ handlers' = [handlers EXCEPT ![h] =
                   [hd EXCEPT !.pc = "getV2Order",
                              !.v2 = hd.input.orderId \in DOMAIN v2orders]]
            /\ UNCHANGED <<transactions, response>>
       ELSE IF ~hd.order
       THEN /\ handlers' = [handlers EXCEPT ![h].pc = "done"]
            /\ Reply(404, "Order not found", Undefined)
            /\ UNCHANGED transactions
       ELSE PaymentBranch(h)
    /\ UNCHANGED <<v2orders, orders, bankAccounts, dispatches, now, backoff>>

\* line 111: after getV2Order
AfterGetV2Order(h) ==
    /\ h \in 1 .. Len(handlers)
    /\ handlers[h].pc = "getV2Order"
    /\ IF ~handlers[h].v2
       THEN /\ handlers' = [handlers EXCEPT ![h].pc = "done"]
            /\ Reply(404, "Order not found", Undefined)
            /\ UNCHANGED transactions
       ELSE PaymentBranch(h)
    /\ UNCHANGED <<v2orders, orders, bankAccounts, dispatches, now, backoff>>

\* lines 123-134: after getBankAccount: the balance check, and in the same
\* turn either the call of updateBankAccountBalance (which assigns the new
\* balance when called) or, on failure, the call of createTransaction
AfterGetBankAccount(h) ==
    /\ h \in 1 .. Len(handlers)
    /\ handlers[h].pc = "getBankAccount"
    /\ LET hd == handlers[h] IN
       IF ~hd.bankAccount.found
       THEN /\ handlers' = [handlers EXCEPT ![h].pc = "done"]
            /\ Reply(404, "Bank account not found", Undefined)
            /\ UNCHANGED <<bankAccounts, transactions>>
       ELSE IF BalanceOf(hd) < hd.input.amount
       THEN /\ CallCreateTransaction(h, [hd EXCEPT
                   !.status = "failed",
                   !.failureReason = "Insufficient balance in the selected bank account"])
            /\ UNCHANGED <<bankAccounts, response>>
       ELSE /\ bankAccounts' = UpdateBankAccountBalance(bankAccounts,
                   hd.input.bankAccountId, BalanceOf(hd) - hd.input.amount)
            /\ handlers' = [handlers EXCEPT ![h].pc = "updateBankAccountBalance"]
            /\ UNCHANGED <<transactions, response>>
    /\ UNCHANGED <<v2orders, orders, dispatches, now, backoff>>

\* after updateBankAccountBalance: the call of createTransaction
AfterUpdateBankAccountBalance(h) ==
    /\ h \in 1 .. Len(handlers)
    /\ handlers[h].pc = "updateBankAccountBalance"
    /\ CallCreateTransaction(h, handlers[h])
    /\ UNCHANGED <<v2orders, orders, bankAccounts, dispatches, now, response, backoff>>

\* line 164: after createTransaction: await storage.getOrderByMerchantId("", "")
AfterCreateTransaction(h) ==
    /\ h \in 1 .. Len(handlers)
    /\ handlers[h].pc = "createTransaction"
    /\ handlers' = [handlers EXCEPT ![h].pc = "getOrderByMerchantId"]
    /\ UNCHANGED <<v2orders, orders, bankAccounts, transactions, dispatches, now, response,
                   backoff>>

\* lines 173-211: the v2 order is read from the map, marked, its dispatch
\* started, and the Transaction returned with 201
AfterGetOrderByMerchantId(h) ==
    /\ h \in 1 .. Len(handlers)
    /\ handlers[h].pc = "getOrderByMerchantId"
    /\ LET hd == handlers[h]
           txn == transactions[hd.transaction]
       IN  /\ IF StartsDispatch(hd.input)
              THEN LET key == CHOOSE k \in V2OrdersGet(hd.input.orderId) : TRUE
                       v2 == MarkPaid(v2orders[key], txn, now)
                   IN
                   /\ v2orders' = [v2orders EXCEPT ![key] = v2]
                   /\ dispatches' = Append(dispatches,
                          SendSignedWebhook(WebhookOptions(v2, txn, hd.input, now), now))
              ELSE UNCHANGED <<v2orders, dispatches>>
           /\ Reply(201, "", txn.id)
    /\ handlers' = [handlers EXCEPT ![h].pc = "done"]
    /\ UNCHANGED <<orders, bankAccounts, transactions, now, backoff>>

----------------------------------------------------------------------------
(* the receiving side: the signature validation of the test webhook server *)

\* const expected = computeSignature(secret, raw); got !== expected rejects
\* (the header itself is always sent: webhooks.ts line 32)
SignatureValid(secret, raw, got) == got = computeSignature(secret, raw)

WebhookSecrets == {"test_secret", "prod_secret"}

----------------------------------------------------------------------------
(* The gateway *)

NoOrders == [id \in {} |-> Undefined]

InitStorage ==
    /\ v2orders = NoOrders
    /\ orders = {}
    /\ bankAccounts = SeedAccounts
    /\ transactions = <<>>
    /\ dispatches = <<>>
    /\ now = 0
    /\ response = [status |-> 0, error |-> "", txn |-> Undefined]
    /\ handlers = <<>>

Init ==
    /\ InitStorage
    /\ backoff = [attempt |-> 0, jitter |-> 0, delay |-> Undefined]

HttpsMerchant == [protocol |-> "https:", hostname |-> "merchant.example"]
HttpMerchant == [protocol |-> "http:", hostname |-> "merchant.example"]
HttpLocalhost == [protocol |-> "http:", hostname |-> "localhost"]

\* the bodies of POST /api/v2/orders
OrderInputs ==
    [merchant_id : {"mer_test"}, order_id : {"order_test_1"}, amount_in_paisa : {49900},
     return_url : {HttpLocalhost}, callback_url : {HttpsMerchant, HttpMerchant},
     test_mode : BOOLEAN]

\* the bodies of POST /api/process-payment
CardInputs ==
    [orderId : GwIds \cup {GwId(0)} \cup LegacyIds, amount : {49900}, paymentMethod : {"card"},
     bankAccountId : {""}, cardNumber : {<<"4111", "4242">>, <<"4111", "0000">>},
     upiId : {""}]

\* the endpoint's answers to one attempt, and the jitter drawn after a failed one
GatewayResponses == {200, 500}
GatewayJitters == {0}

Next ==
    \/ CreateOrder
    \/ \E order \in OrderInputs : CreateOrderV2(order, NewGatewayOrderIds)
    \/ \E input \in CardInputs : ProcessPayment(input)
    \/ \E i \in 1 .. Len(dispatches), res \in GatewayResponses, j \in GatewayJitters :
          FetchSettles(i, res, j)
    \/ \E i \in 1 .. Len(dispatches) : Wake(i)
    \/ Tick

Spec == Init /\ [][Next]_vars

----------------------------------------------------------------------------
(* The request handlers alone, with every kind of payment request; the      *)
(* dispatches they start stay at their first fetch                          *)

PaymentOrderIds == GwIds \cup {GwId(0)} \cup LegacyIds

\* the bodies of POST /api/process-payment: each method with a succeeding and
\* a failing detail, an unknown bank account, and a method outside the enum
PaymentInputs ==
    [orderId : PaymentOrderIds, amount : {49900}, paymentMethod : {"card"},
     bankAccountId : {""},
     cardNumber : {<<"0000", "4242">>, <<"4242", "0000">>, <<"4111", "1111">>},
     upiId : {""}]
    \cup
    [orderId : PaymentOrderIds, amount : {49900}, paymentMethod : {"upi"},
     bankAccountId : {""}, cardNumber : {<<>>}, upiId : {"ok@upi", "fail@upi"}]
    \cup
    [orderId : PaymentOrderIds, amount : {600}, paymentMethod : {"netbanking"},
     bankAccountId : {"acc_3", "acc_9"}, cardNumber : {<<>>}, upiId : {""}]
    \cup
    [orderId : PaymentOrderIds, amount : {49900}, paymentMethod : {"cash"},
     bankAccountId : {""}, cardNumber : {<<>>}, upiId : {""}]

NextPayments ==
    \/ CreateOrder
    \/ \E order \in OrderInputs : CreateOrderV2(order, NewGatewayOrderIds)
    \/ \E input \in PaymentInputs : ProcessPayment(input)

SpecPayments == Init /\ [][NextPayments]_vars

----------------------------------------------------------------------------
(* Order creation with and without a merchant's token, and card payments   *)
(* on the orders created                                                    *)

\* the lengths of the tokens merchants supply: each side of both limits
SuppliedTokens == {MinTokenLength - 1, MinTokenLength, MaxTokenLength, MaxTokenLength + 1}

\* the bodies of POST /api/v2/orders, without a token and with one
TokenInputs ==
    OrderInputs
    \cup
    [merchant_id : {"mer_test"}, order_id : {"order_test_1"}, amount_in_paisa : {49900},
     return_url : {HttpLocalhost}, callback_url : {HttpsMerchant},
     test_mode : BOOLEAN, one_time_order_token : SuppliedTokens]

NextTokens ==
    \/ CreateOrder
    \/ \E order \in TokenInputs : CreateOrderV2(order, NewGatewayOrderIds)
    \/ \E input \in CardInputs : ProcessPayment(input)

SpecTokens == Init /\ [][NextTokens]_vars

----------------------------------------------------------------------------
(* Order creation with every kind of URL and every value of the random id, *)
(* and card payments on the orders created                                  *)

Http127 == [protocol |-> "http:", hostname |-> "127.0.0.1"]

\* return_url and callback_url: both https, both on the local host, and
\* plain http to another host in either place
OrderUrlPairs ==
    {<<HttpsMerchant, HttpsMerchant>>, <<Http127, HttpLocalhost>>,
     <<HttpMerchant, HttpsMerchant>>, <<HttpsMerchant, HttpMerchant>>}

\* the bodies of POST /api/v2/orders
OrderUrlInputs ==
    {[merchant_id |-> "mer_test", order_id |-> "order_test_1", amount_in_paisa |-> amount,
      return_url |-> urls[1], callback_url |-> urls[2], test_mode |-> TRUE] :
        amount \in {49900, 0}, urls \in OrderUrlPairs}

OrderPaymentInputs ==
    [orderId : GatewayOrderIdSpace, amount : {49900}, paymentMethod : {"card"},
     bankAccountId : {""}, cardNumber : {<<"4111", "4242">>, <<"4111", "0000">>},
     upiId : {""}]

NextOrders ==
    \/ \E order \in OrderUrlInputs : CreateOrderV2(order, GatewayOrderIdSpace)
    \/ \E input \in OrderPaymentInputs : ProcessPayment(input)

SpecOrders == Init /\ [][NextOrders]_vars

----------------------------------------------------------------------------
(* Concurrent process-payment requests, interleaved at every await *)

\* netbanking payments on one account that together exceed its balance, on a
\* legacy order and on a v2 order, and a card payment
InterleavedInputs ==
    [orderId : LegacyIds, amount : {600, 700}, paymentMethod : {"netbanking"},
     bankAccountId : {"acc_3"}, cardNumber : {<<>>}, upiId : {""}]
    \cup
    [orderId : {GwId(1)}, amount : {600}, paymentMethod : {"netbanking"},
     bankAccountId : {"acc_3"}, cardNumber : {<<>>}, upiId : {""}]
    \cup
    [orderId : LegacyIds, amount : {49900}, paymentMethod : {"card"},
     bankAccountId : {""}, cardNumber : {<<"4111", "0000">>}, upiId : {""}]

InterleavedOrders ==
    [merchant_id : {"mer_test"}, order_id : {"order_test_1"}, amount_in_paisa : {49900},
     return_url : {HttpLocalhost}, callback_url : {HttpsMerchant}, test_mode : {TRUE}]

NextInterleaved ==
    \/ CreateOrder
    \/ \E order \in InterleavedOrders : CreateOrderV2(order, NewGatewayOrderIds)
    \/ \E input \in InterleavedInputs : ReceivePayment(input)
    \/ \E h \in 1 .. Len(handlers) : AfterGetOrder(h)
    \/ \E h \in 1 .. Len(handlers) : AfterGetV2Order(h)
    \/ \E h \in 1 .. Len(handlers) : AfterGetBankAccount(h)
    \/ \E h \in 1 .. Len(handlers) : AfterUpdateBankAccountBalance(h)
    \/ \E h \in 1 .. Len(handlers) : AfterCreateTransaction(h)
    \/ \E h \in 1 .. Len(handlers) : AfterGetOrderByMerchantId(h)

SpecInterleaved == Init /\ [][NextInterleaved]_vars

----------------------------------------------------------------------------
(* One call of sendSignedWebhook *)

SamplePayload ==
    [gateway_order_id |-> GwId(1), merchant_order_id |-> "order_test_1", payment_ref |-> 1,
     status |-> "SUCCESS", amount_in_paisa |-> 49900, currency |-> "INR", paid_at |-> 0,
     payment_method |-> "CARD", card_masked |-> "4242", test_mode |-> TRUE]

\* the options of the call: maxRetries is absent or any number up to the bound
DispatchOptions ==
    [url : {HttpsMerchant}, body : {SamplePayload}, secret : {"test_secret"},
     maxRetries : (0 .. MaxRetriesArg) \cup {Undefined},
     idempotencyKey : {1}, testMode : {TRUE}]

DispatchResponses == {200, 204, 404, 500, TransportError}
DispatchJitters == {0, JitterRange - 1}

CallSendSignedWebhook(opts) ==
    /\ dispatches = <<>>
    /\ dispatches' = <<SendSignedWebhook(opts, now)>>
    /\ UNCHANGED <<v2orders, orders, bankAccounts, transactions, now, response, backoff, handlers>>

NextDispatch ==
    \/ \E opts \in DispatchOptions : CallSendSignedWebhook(opts)
    \/ \E i \in 1 .. Len(dispatches), res \in DispatchResponses, j \in DispatchJitters :
          FetchSettles(i, res, j)
    \/ \E i \in 1 .. Len(dispatches) : Wake(i)

SpecDispatch == Init /\ [][NextDispatch]_vars

----------------------------------------------------------------------------
(* One call of sendSignedWebhook against every kind of failure: a redirect
   status that is not followed, a client error, a server error, a throw *)

FailureKindResponses == {204, 302, 404, 500, TransportError}

NextFailureKinds ==
    \/ \E opts \in DispatchOptions : CallSendSignedWebhook(opts)
    \/ \E i \in 1 .. Len(dispatches), res \in FailureKindResponses, j \in GatewayJitters :
          FetchSettles(i, res, j)
    \/ \E i \in 1 .. Len(dispatches) : Wake(i)

SpecFailureKinds == Init /\ [][NextFailureKinds]_vars

\* every fetch settles (response or throw) and every setTimeout fires
SpecFailureKindsFair ==
    /\ SpecFailureKinds
    /\ WF_vars(\E i \in 1 .. Len(dispatches), res \in FailureKindResponses, j \in GatewayJitters :
                   FetchSettles(i, res, j))
    /\ WF_vars(\E i \in 1 .. Len(dispatches) : Wake(i))

----------------------------------------------------------------------------
(* The delay computation alone *)

InitBackoff ==
    /\ InitStorage
    /\ backoff \in [attempt : 1 .. MaxAttemptNumber, jitter : Jitters, delay : {Undefined}]

ComputeDelay ==
    /\ backoff.delay = Undefined
    /\ backoff' = [backoff EXCEPT !.delay = BackoffDelay(backoff.attempt, backoff.jitter)]
    /\ UNCHANGED <<v2orders, orders, bankAccounts, transactions, dispatches, now, response,
                   handlers>>

SpecBackoff == InitBackoff /\ [][ComputeDelay]_vars

----------------------------------------------------------------------------
(* Properties *)

DispatchIds == 1 .. Len(dispatches)

\* the order a dispatch of the gateway notifies about
OrderOf(d) == d.opts.body.gateway_order_id

\* was the attempt answered by this response accepted (HTTP 2xx)
Accepted(res) == res >= 200 /\ res <= 299

\* a finished dispatch none of whose attempts was accepted
Exhausted(d) ==
    /\ d.pc = "done"
    /\ \A n \in 1 .. Len(d.responses) : ~Accepted(d.responses[n])

\* C1: for any sequence of payment-processing events naming the same v2
\* order, at most one webhook dispatch is ever started for that order.
C1_AtMostOneDispatchPerOrder ==
    \A i, j \in DispatchIds :
        OrderOf(dispatches[i]) = OrderOf(dispatches[j]) => i = j

\* C2: every v2 order starts in CREATED, and once its status is COMPLETED or
\* FAILED no later step changes it.
C2_StatusChangesAtMostOnce ==
    [][/\ \A id \in DOMAIN v2orders' \ DOMAIN v2orders :
              v2orders'[id].status = "CREATED"
       /\ \A id \in DOMAIN v2orders :
              v2orders[id].status # "CREATED"
                  => v2orders'[id].status = v2orders[id].status]_vars

\* C3: a dispatch never makes more than maxRetries + 1 requests, and one in
\* which no attempt is accepted ends with exactly maxRetries + 1 requests
\* (6 when maxRetries is left to its default) and success = false.
C3_ExhaustionAfterMaxRetriesPlusOne ==
    \A i \in DispatchIds :
        LET d == dispatches[i]
            max_retries == IF d.opts.maxRetries = Undefined THEN 5 ELSE d.opts.maxRetries
        IN  /\ Len(d.requests) <= max_retries + 1
            /\ Exhausted(d) =>
                   /\ Len(d.requests) = max_retries + 1
                   /\ Len(d.responses) = max_retries + 1
                   /\ d.result.success = FALSE

C3_Witness ==
    \E i \in DispatchIds :
        /\ Exhausted(dispatches[i])
        /\ dispatches[i].opts.maxRetries = Undefined
        /\ Len(dispatches[i].requests) = 6

\* C4: if attempts 0..k-1 are not accepted and attempt k is, the dispatch
\* has made exactly k + 1 requests, returns success = true with the accepted
\* response, and makes no further request.
C4_AcceptedAtK ==
    \A i \in DispatchIds :
        LET d == dispatches[i]
            k == Len(d.responses) - 1
        IN  (d.responses # <<>> /\ Accepted(d.responses[k + 1])) =>
                /\ \A n \in 1 .. k : ~Accepted(d.responses[n])
                /\ Len(d.requests) = k + 1
                /\ d.pc = "done"
                /\ d.result.success = TRUE

C4_NoRequestAfterReturn ==
    \A i \in DispatchIds :
        dispatches[i].pc = "done" => dispatches'[i] = dispatches[i]

C4_SuccessStopsTheDispatch == []C4_AcceptedAtK /\ [][C4_NoRequestAfterReturn]_vars

C4_Witness ==
    \E i \in DispatchIds :
        /\ dispatches[i].result.success
        /\ Len(dispatches[i].requests) = 2
        /\ ~Accepted(dispatches[i].responses[1])

\* C5: every attempt of one dispatch carries the same X-Gateway-Signature,
\* the same X-Gateway-Timestamp and the same body, those fixed when the
\* dispatch started, whatever happens to the order between attempts.
C5_SameSignatureTimestampBody ==
    \A i \in DispatchIds :
        LET d == dispatches[i] IN
        \A n \in 1 .. Len(d.requests) :
            /\ d.requests[n].signature = d.requests[1].signature
            /\ d.requests[n].timestamp = d.requests[1].timestamp
            /\ d.requests[n].body = d.requests[1].body
            /\ d.requests[n].signature = d.signature
            /\ d.requests[n].timestamp = d.timestamp
            /\ d.requests[n].body = d.opts.body

\* a retry sent after the clock moved and after a later event changed the order
C5_Witness ==
    \E i \in DispatchIds :
        LET d == dispatches[i] IN
        /\ Len(d.requests) >= 2
        /\ now > d.requests[1].timestamp
        /\ v2orders[OrderOf(d)].transaction_id # d.opts.idempotencyKey
        /\ v2orders[OrderOf(d)].paid_at > d.requests[1].timestamp
        /\ Len(dispatches[v2orders[OrderOf(d)].transaction_id].requests) = 1

\* C6: the n-th request of a dispatch carries X-Gateway-Retry-Count = n - 1,
\* after a non-2xx response as after a transport error.
C6_RetryCountIsRequestIndex ==
    \A i \in DispatchIds :
        \A n \in 1 .. Len(dispatches[i].requests) :
            dispatches[i].requests[n].retry = n - 1

C6_Witness ==
    \E i \in DispatchIds :
        LET d == dispatches[i] IN
        /\ Len(d.requests) = 3
        /\ d.responses = <<500, TransportError>>
        /\ d.requests[3].retry = 2

\* C7: a dispatch sleeps only after a failed attempt whose number is below
\* maxRetries; an exhausted dispatch has slept maxRetries times.
C7_NoSleepAfterLastAttempt ==
    \A i \in DispatchIds :
        LET d == dispatches[i] IN
        /\ d.pc = "sleep" => Len(d.responses) - 1 < d.maxRetries
        /\ Exhausted(d) => Len(d.delays) = d.maxRetries

\* C8: for every attempt_number in 1..6 and every jitter in 0..299 the delay
\* lies in [2^attempt_number * 1000, min(30000, 2^attempt_number * 1000) + 300)
\* and never exceeds 30300 ms.
C8_DelayInterval ==
    (backoff.delay # Undefined /\ backoff.attempt \in 1 .. 6) =>
        /\ backoff.delay >= Pow2(backoff.attempt) * 1000
        /\ backoff.delay < Min(30000, Pow2(backoff.attempt) * 1000) + 300
        /\ backoff.delay <= 30300

\* C8, amended: the lower end of the interval is capped as well:
\* [min(30000, 2^attempt_number * 1000), min(30000, 2^attempt_number * 1000) + 300).
C8_DelayIntervalCapped ==
    (backoff.delay # Undefined /\ backoff.attempt \in 1 .. 6) =>
        /\ backoff.delay >= Min(30000, Pow2(backoff.attempt) * 1000)
        /\ backoff.delay < Min(30000, Pow2(backoff.attempt) * 1000) + 300
        /\ backoff.delay <= 30300

C8_Witness ==
    /\ backoff.attempt = 5
    /\ backoff.jitter = 299
    /\ backoff.delay = 30000

\* C9: the delay slept after the failed attempt numbered a (from 0) is
\* min(30000, 1000 * 2^(a+1) + j) for some j in 0..299; the first retry
\* waits 2000..2299 ms and no delay exceeds 30000 ms, after a non-2xx
\* response as after a transport error.
C9_DelayAfterAttempt ==
    \A i \in DispatchIds :
        LET d == dispatches[i] IN
        /\ Len(d.delays) <= Len(d.responses)
        /\ \A n \in 1 .. Len(d.delays) :
               LET a == n - 1 IN
               /\ ~Accepted(d.responses[n])
               /\ \E j \in 0 .. 299 : d.delays[n] = Min(30000, 1000 * Pow2(a + 1) + j)
               /\ d.delays[n] <= 30000
               /\ a = 0 => d.delays[n] \in 2000 .. 2299

\* two delays with different jitter, one after a thrown error and one after a 500
C9_Witness ==
    \E i \in DispatchIds :
        LET d == dispatches[i] IN
        /\ Len(d.delays) >= 2
        /\ d.responses[1] = TransportError /\ d.delays[1] = 2299
        /\ d.responses[2] = 500 /\ d.delays[2] = 4000

\* C10: in a dispatch with maxRetries = 5 in which every attempt fails, the
\* delays slept add up to at most 60000 + 5 * 299 ms.
C10_TotalBackoffBound ==
    \A i \in DispatchIds :
        (Exhausted(dispatches[i]) /\ dispatches[i].maxRetries = 5) =>
            SumSeq(dispatches[i].delays) <= 60000 + 5 * 299

\* C11: the process-payment request is answered 201 with its Transaction
\* in the step that starts the dispatch, before any attempt of that dispatch
\* has settled, and no later step of a dispatch (success, failure,
\* exhaustion) changes the response.
C11_AnsweredAtStart ==
    Len(dispatches') = Len(dispatches) + 1 =>
        LET d == dispatches'[Len(dispatches')] IN
        /\ response'.status = 201
        /\ response'.txn = d.opts.idempotencyKey
        /\ d.pc = "fetch"
        /\ d.responses = <<>>
        /\ d.delays = <<>>

C11_DeliveryLeavesResponse ==
    (Len(dispatches') = Len(dispatches) /\ dispatches' # dispatches) =>
        response' = response

C11_ResponseIndependentOfDelivery ==
    [][C11_AnsweredAtStart /\ C11_DeliveryLeavesResponse]_vars

\* the answer to a payment whose dispatch has since been exhausted
C11_Witness ==
    \E i \in DispatchIds :
        /\ Exhausted(dispatches[i])
        /\ response.status = 201
        /\ response.txn = dispatches[i].opts.idempotencyKey

\* C12: each event that moves a v2 order to COMPLETED or FAILED starts a
\* dispatch addressed to that order's callback_url, and that dispatch makes
\* at least one delivery attempt.
C12_TransitionStartsDispatch ==
    /\ \A id \in DOMAIN v2orders :
           v2orders[id].status \in {"COMPLETED", "FAILED"} =>
               \E i \in DispatchIds :
                   LET d == dispatches[i] IN
                   /\ d.opts.idempotencyKey = v2orders[id].transaction_id
                   /\ OrderOf(d) = id
                   /\ Len(d.requests) >= 1
                   /\ \A n \in 1 .. Len(d.requests) :
                          d.requests[n].url = v2orders[id].callback_url
    /\ \A k \in 1 .. Len(transactions) :
           transactions[k].orderId \in DOMAIN v2orders =>
               \E i \in DispatchIds :
                   /\ dispatches[i].opts.idempotencyKey = k
                   /\ Len(dispatches[i].requests) >= 1

C12_Witness ==
    \E id \in DOMAIN v2orders :
        /\ v2orders[id].status = "FAILED"
        /\ \E i \in DispatchIds :
               /\ dispatches[i].opts.idempotencyKey = v2orders[id].transaction_id
               /\ Len(dispatches[i].requests) = 1

\* C13: no delivery attempt is made for an order in CREATED: whenever a
\* dispatch has made an attempt, its order is COMPLETED or FAILED and the
\* Transaction of its event is stored.
C13_NoAttemptBeforeTransition ==
    /\ \A i \in DispatchIds :
           LET d == dispatches[i] IN
           d.requests # <<>> =>
               /\ OrderOf(d) \in DOMAIN v2orders
               /\ v2orders[OrderOf(d)].status \in {"COMPLETED", "FAILED"}
               /\ d.opts.idempotencyKey \in 1 .. Len(transactions)
               /\ transactions[d.opts.idempotencyKey].orderId = OrderOf(d)
    /\ \A id \in DOMAIN v2orders :
           v2orders[id].status = "CREATED" =>
               \A i \in DispatchIds : OrderOf(dispatches[i]) # id

C13_Witness ==
    \E i \in DispatchIds :
        /\ Len(dispatches[i].requests) >= 2
        /\ v2orders[OrderOf(dispatches[i])].status = "COMPLETED"

\* C14: the outcome of delivery never changes stored state: a step of a
\* dispatch (an attempt accepted, an attempt failed, retries exhausted)
\* leaves every order, Transaction and bank account as it was, so an order
\* whose dispatch has finished, whatever the result, still has the status,
\* paid_at and transaction_id its last event gave it.
C14_DispatchStep ==
    Len(dispatches') = Len(dispatches) /\ dispatches' # dispatches

C14_DispatchStepKeepsStorage ==
    C14_DispatchStep =>
        /\ v2orders' = v2orders
        /\ orders' = orders
        /\ transactions' = transactions
        /\ bankAccounts' = bankAccounts

C14_FinishedDispatchKeepsTransition ==
    \A i \in DispatchIds :
        LET d == dispatches[i] IN
        (d.pc = "done" /\ OrderOf(d) \in DOMAIN v2orders) =>
            LET o == v2orders[OrderOf(d)] IN
            /\ o.status \in {"COMPLETED", "FAILED"}
            /\ o.transaction_id = d.opts.idempotencyKey =>
                   /\ o.paid_at = d.opts.body.paid_at
                   /\ (o.status = "COMPLETED") <=> (d.opts.body.status = "SUCCESS")

C14_DeliveryNeverRollsBack ==
    /\ [](C14_FinishedDispatchKeepsTransition)
    /\ [][C14_DispatchStepKeepsStorage]_vars

C14_Witness ==
    \E i \in DispatchIds :
        /\ Exhausted(dispatches[i])
        /\ v2orders[OrderOf(dispatches[i])].status = "COMPLETED"
        /\ v2orders[OrderOf(dispatches[i])].transaction_id = dispatches[i].opts.idempotencyKey

\* C15: sendSignedWebhook has no exception path: a call is always at its
\* fetch, in its sleep, or has returned, it returns after at most
\* maxRetries + 1 attempts, and the value it returns has success = true
\* exactly when one of its attempts was accepted.
C15_ReturnsAResult ==
    \A i \in DispatchIds :
        LET d == dispatches[i] IN
        /\ d.pc \in {"fetch", "sleep", "done"}
        /\ Len(d.responses) <= d.maxRetries + 1
        /\ d.pc = "done" =>
               /\ d.result.status # Undefined
               /\ d.result.success \in BOOLEAN
               /\ d.result.success <=>
                      \E n \in 1 .. Len(d.responses) : Accepted(d.responses[n])

C15_Witness ==
    \E i \in DispatchIds :
        LET d == dispatches[i] IN
        /\ d.pc = "done"
        /\ d.result.success
        /\ \E n \in 1 .. Len(d.responses) : d.responses[n] = TransportError
        /\ \E n \in 1 .. Len(d.responses) : d.responses[n] = 500

C17_ErrorAnswerChangesNothing ==
    response'.status >= 400 =>
        /\ response'.status \in {400, 404}
        /\ v2orders' = v2orders
        /\ orders' = orders
        /\ transactions' = transactions
        /\ bankAccounts' = bankAccounts
        /\ dispatches' = dispatches

C17_RejectedRequestsHaveNoEffect == [][C17_ErrorAnswerChangesNothing]_vars

C17_Witness ==
    /\ response.status = 404
    /\ response.error = "Bank account not found"
    /\ Len(transactions) = 1
    /\ DOMAIN v2orders # {}

\* C18: every payment-processing event that names an existing order creates
\* exactly one Transaction, and stored Transactions are never modified or
\* removed.
C18_StoredTransactionsKept ==
    /\ Len(transactions') >= Len(transactions)
    /\ SubSeq(transactions', 1, Len(transactions)) = transactions

C18_Processed(input) ==
    /\ PaymentSchemaOk(input)
    /\ OrderFound(input)
    /\ ~(IsNetbanking(input) /\ input.bankAccountId \notin DOMAIN bankAccounts)

C19_StatusesAndIdsAgree ==
    /\ \A i \in DispatchIds :
           LET d == dispatches[i]
               key == d.opts.idempotencyKey
           IN  /\ key \in 1 .. Len(transactions)
               /\ LET t == transactions[key] IN
                  /\ t.id = key
                  /\ t.orderId = OrderOf(d)
                  /\ d.opts.body.payment_ref = t.id
                  /\ \A n \in 1 .. Len(d.requests) :
                         /\ d.requests[n].idempotencyKey = t.id
                         /\ d.requests[n].body.payment_ref = t.id
                  /\ t.status \in {"success", "failed"}
                  /\ d.opts.body.status = (IF t.status = "success" THEN "SUCCESS" ELSE "FAILED")
                  /\ v2orders[OrderOf(d)].transaction_id = t.id =>
                         v2orders[OrderOf(d)].status =
                             (IF t.status = "success" THEN "COMPLETED" ELSE "FAILED")
    /\ \A id \in DOMAIN v2orders :
           v2orders[id].status # "CREATED" =>
               \E i \in DispatchIds :
                   /\ OrderOf(dispatches[i]) = id
                   /\ dispatches[i].opts.idempotencyKey = v2orders[id].transaction_id

C19_Witness ==
    \E i, j \in DispatchIds :
        /\ i < j
        /\ dispatches[i].opts.body.status = "SUCCESS"
        /\ dispatches[j].opts.body.status = "FAILED"
        /\ transactions[2].paymentMethod = "upi"
        /\ v2orders[OrderOf(dispatches[j])].status = "FAILED"
        /\ v2orders[OrderOf(dispatches[j])].transaction_id = 2

\* C20: the signature of every attempt is the tag of exactly the body sent
\* in that attempt under the secret selected by the order's test_mode; a
\* receiver recomputing the tag over the received body with that secret
\* accepts it, and rejects it for a body changed in any field or under the
\* other secret.
C20_TamperedBodies(body) ==
    {[body EXCEPT !.amount_in_paisa = @ + 1],
     [body EXCEPT !.status = IF @ = "SUCCESS" THEN "FAILED" ELSE "SUCCESS"],
     [body EXCEPT !.payment_ref = @ + 1]}

C21_SecretAndHeaderFollowTestMode ==
    \A i \in DispatchIds :
        LET d == dispatches[i]
            test_mode == v2orders[OrderOf(d)].test_mode
            key == IF test_mode THEN "test_secret" ELSE "prod_secret"
        IN  /\ d.opts.secret = key
            /\ d.signature.key = key
            /\ \A n \in 1 .. Len(d.requests) :
                   /\ d.requests[n].testMode = test_mode
                   /\ d.requests[n].signature.key = key

C21_Witness ==
    \E i, j \in DispatchIds :
        /\ i # j
        /\ v2orders[OrderOf(dispatches[i])].test_mode
        /\ dispatches[i].requests[1].testMode
        /\ dispatches[j].requests[1].signature.key = "test_secret"

\* C22: POST /api/v2/orders with a valid body stores an order iff return_url
\* and callback_url are each HTTPS or have hostname localhost or 127.0.0.1;
\* otherwise the request is rejected with ERR_URL_NOT_REGISTERED and no order
\* is stored or changed.
C22_UrlAllowed(u) ==
    u.protocol = "https:" \/ u.hostname \in {"localhost", "127.0.0.1"}

C24_CreationKeepsStoredOrders ==
    /\ \A id \in DOMAIN v2orders :
           /\ id \in DOMAIN v2orders'
           /\ v2orders'[id].gateway_order_id = id
    /\ transactions' = transactions =>
           \A id \in DOMAIN v2orders : v2orders'[id] = v2orders[id]

C24_GatewayOrderIdsUnique == [][C24_CreationKeepsStoredOrders]_vars

\* C23: a card payment fails with "Card declined by issuer" when the card
\* number ends in 0000, fails with "Insufficient funds" when it ends in 1111
\* and succeeds for any other ending; and every stored Transaction, of any
\* payment method, has a failure reason iff its status is failed.
C23_CardOutcome ==
    \A input \in PaymentInputs :
        (/\ ProcessPayment(input)
         /\ input.paymentMethod = "card"
         /\ Len(transactions') = Len(transactions) + 1) =>
            LET t == transactions'[Len(transactions')]
                n == Len(input.cardNumber)
            IN  /\ input.cardNumber[n] = "0000" =>
                       t.status = "failed" /\ t.failureReason = "Card declined by issuer"
                /\ input.cardNumber[n] = "1111" =>
                       t.status = "failed" /\ t.failureReason = "Insufficient funds"
                /\ input.cardNumber[n] \notin {"0000", "1111"} =>
                       t.status = "success" /\ t.failureReason = ""

C23_ReasonIffFailed ==
    \A k \in 1 .. Len(transactions) :
        /\ transactions[k].status \in {"success", "failed"}
        /\ transactions[k].failureReason # "" <=> transactions[k].status = "failed"

C23_CardOutcomeAndFailureReason ==
    /\ [](C23_ReasonIffFailed)
    /\ [][C23_CardOutcome]_vars

C23_Witness ==
    /\ Len(transactions) = 2
    /\ transactions[1].paymentMethod = "card"
    /\ transactions[1].failureReason = "Insufficient funds"
    /\ transactions[2].paymentMethod = "upi"
    /\ transactions[2].status = "failed"
    /\ transactions[2].failureReason = "UPI transaction declined"

\* C25: provided every attempt eventually completes or errors and every
\* backoff sleep eventually ends, every started dispatch eventually returns
\* (success, or failure after exhaustion): no dispatch retries forever.
C25_EveryDispatchTerminates ==
    \A i \in 1 .. MaxPayments :
        (Len(dispatches) >= i) ~> (Len(dispatches) >= i /\ dispatches[i].pc = "done")

C25_Witness ==
    \E i \in DispatchIds :
        LET d == dispatches[i] IN
        /\ d.pc = "done"
        /\ ~d.result.success
        /\ d.maxRetries = DefaultMaxRetries
        /\ d.responses[Len(d.responses)] = TransportError
        /\ d.responses[1] = 302

\* C26: concurrent dispatches do not interfere: under every interleaving each
\* dispatch's requests (retry counts, signature, timestamp, body) and result
\* are those of the same call running alone against the same responses; a
\* step of one dispatch changes no other dispatch; and while one dispatch
\* sleeps, the other dispatch and the request handlers can still take their
\* steps.
RECURSIVE C26_Replay(_, _)
C26_Replay(d, responses) ==
    IF responses = <<>> THEN d
    ELSE LET settled == AfterFetch(d, Head(responses), 0) IN
         IF settled.pc = "sleep" /\ Tail(responses) # <<>>
         THEN C26_Replay(EnterLoop(settled), Tail(responses))
         ELSE settled

C26_View(d) == [d EXCEPT !.delays = <<>>]

C26_AsIfAlone ==
    \A i \in DispatchIds :
        LET d == dispatches[i]
            alone == C26_Replay(SendSignedWebhook(d.opts, d.timestamp), d.responses)
        IN  /\ d.timestamp = transactions[d.opts.idempotencyKey].timestamp
            /\ IF d.pc = "sleep" \/ d.responses = <<>> \/ alone.pc = "done"
               THEN C26_View(d) = C26_View(alone)
               ELSE C26_View(d) = C26_View(EnterLoop(alone))

C26_SleepBlocksNoOne ==
    \A i \in DispatchIds :
        dispatches[i].pc = "sleep" =>
            /\ \A k \in DispatchIds \ {i} :
                   /\ dispatches[k].pc = "fetch" => ENABLED FetchSettles(k, 200, 0)
                   /\ dispatches[k].pc = "sleep" => ENABLED Wake(k)
            /\ Len(transactions) < MaxPayments =>
                   \A input \in CardInputs : ENABLED ProcessPayment(input)

C26_StepOfOneDispatch ==
    (Len(dispatches') = Len(dispatches) /\ dispatches' # dispatches) =>
        \E i \in DispatchIds :
            \A k \in DispatchIds \ {i} : dispatches'[k] = dispatches[k]

C26_DispatchesDoNotInterfere ==
    /\ [](C26_AsIfAlone /\ C26_SleepBlocksNoOne)
    /\ [][C26_StepOfOneDispatch]_vars

C26_Witness ==
    /\ Len(dispatches) = 2
    /\ dispatches[1].pc = "sleep"
    /\ dispatches[1].responses = <<500, 500>>
    /\ dispatches[2].pc = "done"
    /\ dispatches[2].responses = <<500, 200>>

\* C27: the result of a dispatch reports the final status code: the status
\* of the accepting 2xx response on success, and the HTTP status of the last
\* attempt made on exhaustion.
C27_ResultReportsFinalStatus ==
    \A i \in DispatchIds :
        LET d == dispatches[i]
            last == d.responses[Len(d.responses)]
        IN  d.pc = "done" =>
                /\ d.result.success => d.result.status = last /\ Accepted(last)
                /\ (~d.result.success /\ last # TransportError) => d.result.status = last

\* C28: no balance ever becomes negative: under every interleaving of
\* concurrent netbanking payments on one account, a balance is only lowered
\* in the turn that checked it, by the amount of that payment and from a
\* balance that covers it, so two payments that together exceed the balance
\* cannot both succeed.
C28_NoNegativeBalance ==
    \A a \in DOMAIN bankAccounts : bankAccounts[a] >= 0

C28_SuccessesCovered ==
    \A a \in DOMAIN bankAccounts :
        LET debits == {h \in 1 .. Len(handlers) :
                          /\ handlers[h].input.bankAccountId = a
                          /\ handlers[h].pc \in {"updateBankAccountBalance", "createTransaction",
                                                 "getOrderByMerchantId", "done"}
                          /\ handlers[h].status = "success"
                          /\ handlers[h].bankAccount.found}
            RECURSIVE Total(_)
            Total(hs) == IF hs = {} THEN 0
                         ELSE LET h == CHOOSE x \in hs : TRUE
                              IN  handlers[h].input.amount + Total(hs \ {h})
        IN  bankAccounts[a] = SeedAccounts[a] - Total(debits)

C28_DebitInTheCheckingTurn ==
    \A a \in DOMAIN bankAccounts :
        bankAccounts'[a] # bankAccounts[a] =>
            \E h \in 1 .. Len(handlers) :
                /\ handlers[h].pc = "getBankAccount"
                /\ handlers'[h].pc = "updateBankAccountBalance"
                /\ handlers[h].input.bankAccountId = a
                /\ handlers[h].input.amount <= bankAccounts[a]
                /\ bankAccounts'[a] = bankAccounts[a] - handlers[h].input.amount

C28_BalanceNeverNegative ==
    /\ [](C28_NoNegativeBalance /\ C28_SuccessesCovered)
    /\ [][C28_DebitInTheCheckingTurn]_vars

C28_Witness ==
    /\ Len(handlers) = 2
    /\ handlers[1].bankAccount = [found |-> TRUE, balance |-> 1000]
    /\ handlers[2].bankAccount = [found |-> TRUE, balance |-> 1000]
    /\ handlers[1].pc = "done"
    /\ handlers[2].pc = "done"
    /\ transactions[1].status = "success"
    /\ transactions[2].status = "failed"
    /\ bankAccounts["acc_3"] = 300

\* C29: a payment event whose outcome is failed leaves every balance
\* unchanged; a successful netbanking payment lowers the balance of the
\* selected account by exactly its amount and changes no other account; card
\* and UPI payments never change a balance.
C29_BalanceFrame ==
    \A input \in PaymentInputs :
        (ProcessPayment(input) /\ Len(transactions') = Len(transactions) + 1) =>
            LET t == transactions'[Len(transactions')] IN
            IF t.status = "success" /\ input.paymentMethod = "netbanking"
            THEN /\ bankAccounts'[input.bankAccountId] =
                        bankAccounts[input.bankAccountId] - input.amount
                 /\ \A a \in DOMAIN bankAccounts \ {input.bankAccountId} :
                        bankAccounts'[a] = bankAccounts[a]
                 /\ DOMAIN bankAccounts' = DOMAIN bankAccounts
            ELSE bankAccounts' = bankAccounts

C29_OnlySuccessfulNetbankingDebits == [][C29_BalanceFrame]_vars

C29_Witness ==
    /\ Len(transactions) = 2
    /\ transactions[1].paymentMethod = "netbanking"
    /\ transactions[1].status = "success"
    /\ transactions[2].paymentMethod = "netbanking"
    /\ transactions[2].status = "failed"
    /\ bankAccounts = [SeedAccounts EXCEPT !["acc_3"] = 400]

C31_PayloadAmountIsTheOrders ==
    /\ \A i \in DispatchIds :
           LET d == dispatches[i]
               o == v2orders[OrderOf(d)]
           IN  /\ d.opts.body.amount_in_paisa = o.amount_in_paisa
               /\ d.opts.body.currency = o.currency
               /\ o.amount_in_paisa \in {order.amount_in_paisa : order \in OrderInputs}
               /\ \A n \in 1 .. Len(d.requests) :
                      /\ d.requests[n].body.amount_in_paisa = o.amount_in_paisa
                      /\ d.requests[n].body.currency = o.currency
    /\ \A k \in 1 .. Len(transactions) :
           (/\ transactions[k].orderId \in DOMAIN v2orders
            /\ transactions[k].amount # v2orders[transactions[k].orderId].amount_in_paisa) =>
               /\ v2orders[transactions[k].orderId].status # "CREATED"
               /\ \E i \in DispatchIds : dispatches[i].opts.idempotencyKey = k

C31_Witness ==
    \E i \in DispatchIds :
        LET d == dispatches[i] IN
        /\ transactions[d.opts.idempotencyKey].amount = 600
        /\ d.opts.body.amount_in_paisa = 49900
        /\ v2orders[OrderOf(d)].status = "COMPLETED"
        /\ v2orders[OrderOf(d)].transaction_id = d.opts.idempotencyKey

\* C32: a payment event for a legacy order creates a Transaction but starts
\* no dispatch and changes no v2 order; a v2 order is changed, or a dispatch
\* started, only by an event whose orderId is the gateway_order_id of that
\* stored v2 order.
C32_LegacyEventTouchesNoV2Order ==
    Len(transactions') = Len(transactions) + 1 =>
        LET t == transactions'[Len(transactions')] IN
        /\ t.orderId \in orders =>
               /\ dispatches' = dispatches
               /\ v2orders' = v2orders
               /\ response'.status = 201
        /\ \A id \in DOMAIN v2orders :
               v2orders'[id] # v2orders[id] =>
                   t.orderId = id /\ v2orders[id].gateway_order_id = id
        /\ dispatches' # dispatches =>
               /\ Len(dispatches') = Len(dispatches) + 1
               /\ t.orderId \in DOMAIN v2orders
               /\ OrderOf(dispatches'[Len(dispatches')]) = t.orderId
               /\ dispatches'[Len(dispatches')].opts.idempotencyKey = t.id

C32_OnlyTransactionsChangeOrders ==
    Len(transactions') = Len(transactions) =>
        /\ dispatches' = dispatches
        /\ \A id \in DOMAIN v2orders : v2orders'[id] = v2orders[id]

C32_LegacyEventsStartNoDispatch ==
    [][C32_LegacyEventTouchesNoV2Order /\ C32_OnlyTransactionsChangeOrders]_vars

C32_Witness ==
    /\ Len(transactions) = 2
    /\ transactions[1].orderId \in DOMAIN v2orders
    /\ transactions[2].orderId \in orders
    /\ Len(dispatches) = 1
    /\ v2orders[transactions[1].orderId].transaction_id = 1
    /\ response = [status |-> 201, error |-> "", txn |-> 2]

\* C33: every stored v2 order has a one_time_order_token of at least 32
\* characters, whether the merchant supplied it or the gateway generated it;
\* the payload of a dispatch carries the token of its order.
C33_StoredTokensAreLongEnough ==
    /\ \A id \in DOMAIN v2orders :
           v2orders[id].one_time_order_token >= MinTokenLength
    /\ \A i \in 1 .. Len(dispatches) :
           dispatches[i].opts.body.one_time_order_token
               = v2orders[OrderOf(dispatches[i])].one_time_order_token

\* an order that carries a generated token (36 characters), paid, after a
\* creation with a token of 31 characters was refused
C33_Witness ==
    /\ \E id \in DOMAIN v2orders :
           /\ v2orders[id].one_time_order_token = TokenPrefixLength + UuidLength - UuidDashes
           /\ v2orders[id].status = "COMPLETED"
    /\ Len(dispatches) = 1
    /\ response = [status |-> 400, error |-> "Validation failed", txn |-> Undefined]

====
